---- MODULE Spec2Model ----
(***************************************************************************)
(* Memory Scramble board (PR_lab_3/MIT-6.102-ps4/src/board.ts).            *)
(*                                                                         *)
(* The board runs on a single-threaded event loop: the body of flipCard    *)
(* up to its first await (or its return) is one atomic step.  A flip that  *)
(* takes Rule 1-D parks a Deferred in waitQueues and is resumed later, in  *)
(* the order in which the Deferreds were resolved.  New calls of flipCard  *)
(* (by any player, also one that still has a suspended flip) may run       *)
(* between a resolve and the resumption it schedules.                      *)
(***************************************************************************)
EXTENDS Integers, Sequences, FiniteSets, TLC

\* ------------------------------------------------------------------ sizes

\* Board.rows, Board.cols: fixed by the board file.
Rows == 1
Cols == 3

\* Most flips that may be suspended (queued or resolved) at one time.
MaxWaiters == 1

\* Most calls of mapCards in one run of the server.
MaxMapCalls == 1

Players == {"a", "b"}

Contents == {"A", "B"}

Pos == (0 .. Rows - 1) \X (0 .. Cols - 1)

\* Positions a caller can construct (Position.checkRep wants row, col >= 0)
\* that lie outside the board.
OutOfBounds == {<<Rows, 0>>, <<0, Cols>>}

Targets == Pos \cup OutOfBounds

\* undefined in cards[r][c]: the card was removed.
NoCard == [content |-> "none", faceUp |-> FALSE]

\* new Card(content, faceUp)
Card(content, faceUp) == [content |-> content, faceUp |-> faceUp]

\* The board file: row-major contents, every card face down.
InitialContent(pos) == IF pos[2] < 2 THEN "A" ELSE "B"

\* The content transformers handed to mapCards: one that exchanges the two
\* contents, one that is not injective, and one whose promise rejects for
\* the second content it is asked about.
Swap == [c \in Contents |-> IF c = "A" THEN "B" ELSE "A"]

Merge == [c \in Contents |-> "A"]

\* What f yields when its promise rejects.
Raises == "raises"

Raising == [c \in Contents |-> IF c = "A" THEN "B" ELSE Raises]

Transforms == {Swap, Merge, Raising}

\* The transformer that returns what it is given.
Identity == [c \in Contents |-> c]

\* The callers of waitForChange.
Observers == {"v", "w"}

\* ------------------------------------------------------------------ state

VARIABLES
    cards,          \* Board.cards: Pos -> Card or NoCard
    playerStates,   \* Board.playerStates: playerId -> PlayerState
    waitQueues,     \* Board.waitQueues: Pos -> sequence of waiting players
    resolved,       \* resolved Deferreds whose flips have not re-entered yet
    maps,           \* mapCards calls in flight
    mapCalls,       \* number of mapCards calls made so far
    changeListeners, \* Board.changeListeners: the observers waiting, in order
    released        \* observers whose last waitForChange has been resolved

vars == <<cards, playerStates, waitQueues, resolved, maps, mapCalls,
          changeListeners, released>>

\* new PlayerState(playerId)
PlayerState == [controlled |-> <<>>, toCleanUp |-> <<>>]

\* The part of the state flipCard reads and writes.
Board == [cards |-> cards, playerStates |-> playerStates,
          waitQueues |-> waitQueues, resolved |-> resolved]

SeqToSet(s) == {s[i] : i \in 1 .. Len(s)}

\* ------------------------------------------------------------------ helpers

\* Card.matches
matches(c1, c2) == c1.content = c2.content

\* Board.isCardControlled: only controlled is consulted, never toCleanUp.
isCardControlled(b, pos) ==
    \E id \in DOMAIN b.playerStates :
        pos \in SeqToSet(b.playerStates[id].controlled)

\* Board.waitForCard: append a Deferred to the queue of the position.
waitForCard(b, pos, id) ==
    [b EXCEPT !.waitQueues[pos] = Append(@, id)]

\* notifyWaiters resolving the Deferreds of the queue from the back.
notifyWaiters_Reversed(b, pos) ==
    IF Len(b.waitQueues[pos]) > 0
    THEN [b EXCEPT
            !.resolved = @ \o [i \in 1 .. Len(b.waitQueues[pos]) |->
                                 [player |-> b.waitQueues[pos][Len(b.waitQueues[pos]) + 1 - i],
                                  pos |-> pos]],
            !.waitQueues[pos] = <<>>]
    ELSE b

\* Board.notifyWaiters: resolve every Deferred of the queue in order, then
\* drop the queue.
notifyWaiters(b, pos) ==
    IF Len(b.waitQueues[pos]) > 0
    THEN [b EXCEPT
            !.resolved = @ \o [i \in 1 .. Len(b.waitQueues[pos]) |->
                                 [player |-> b.waitQueues[pos][i], pos |-> pos]],
            !.waitQueues[pos] = <<>>]
    ELSE b

\* Board.flipCardUp
flipCardUp(b, pos) == [b EXCEPT !.cards[pos].faceUp = TRUE]

\* Board.flipCardUp throws when the card is already face up.
flipCardUpThrows(b, pos) == b.cards[pos].faceUp

\* Board.flipCardDown
flipCardDown(b, pos) == [b EXCEPT !.cards[pos].faceUp = FALSE]

\* Board.flipCardDown throws when the card is face down or controlled.
flipCardDownThrows(b, pos) ==
    ~b.cards[pos].faceUp \/ isCardControlled(b, pos)

\* Board.checkRep: TRUE iff no assertion fails.
checkRep(b) ==
    /\ Rows > 0 /\ Cols > 0
    /\ \A id \in DOMAIN b.playerStates :
         LET state == b.playerStates[id] IN
           /\ Len(state.controlled) <= 2
           /\ \A pos \in SeqToSet(state.controlled) :
                /\ pos \in Pos
                /\ b.cards[pos] # NoCard
                /\ b.cards[pos].faceUp
    /\ \A id1, id2 \in DOMAIN b.playerStates :
         \A i \in 1 .. Len(b.playerStates[id1].controlled) :
           \A j \in 1 .. Len(b.playerStates[id2].controlled) :
             (id1 # id2 \/ i # j) =>
               b.playerStates[id1].controlled[i] # b.playerStates[id2].controlled[j]

\* The outcome of a synchronous run of flipCard.
Outcome(b, result, rule) == [board |-> b, result |-> result, rule |-> rule]

\* checkRep() at the end of a rule: an assertion error leaves the mutation.
Checked(b, rule) ==
    Outcome(b, IF checkRep(b) THEN "ok" ELSE "error", rule)

\* get-or-create of the player's PlayerState.
getPlayerState(b, id) ==
    IF id \in DOMAIN b.playerStates
    THEN b
    ELSE [b EXCEPT !.playerStates =
            [k \in DOMAIN b.playerStates \cup {id} |->
               IF k = id THEN PlayerState ELSE b.playerStates[k]]]

\* state.controlled.push(position)
pushControlled(b, id, pos) ==
    [b EXCEPT !.playerStates[id].controlled = Append(@, pos)]

\* ------------------------------------------------------------------ flipCard

\* Rule 3-A applies: both cards of toCleanUp are still there and match.
CleanupMatches(b, firstPos, secondPos) ==
    /\ b.cards[firstPos] # NoCard
    /\ b.cards[secondPos] # NoCard
    /\ matches(b.cards[firstPos], b.cards[secondPos])

\* Rule 3-A: remove both cards and notify the waiters of both positions.
RemovePair(b, firstPos, secondPos) ==
    notifyWaiters(
        notifyWaiters(
            [b EXCEPT !.cards[firstPos] = NoCard, !.cards[secondPos] = NoCard],
            firstPos),
        secondPos)

\* Rule 3-B turning a face-up card down whether or not somebody controls it.
FlipDownIfFree_IgnoresControl(b, pos) ==
    IF b.cards[pos] # NoCard /\ b.cards[pos].faceUp
    THEN flipCardDown(b, pos)
    ELSE b

\* Rule 3-B turning a face-up card down even when a player controls it, and
\* taking it out of that player's controlled list.
FlipDownIfFree_Evicts(b, pos) ==
    IF b.cards[pos] # NoCard /\ b.cards[pos].faceUp
    THEN flipCardDown(
           [b EXCEPT !.playerStates =
              [k \in DOMAIN b.playerStates |->
                 [b.playerStates[k] EXCEPT !.controlled =
                    SelectSeq(@, LAMBDA p : p # pos)]]],
           pos)
    ELSE b

\* Rule 3-B, one card: flip it down if still there, face up and uncontrolled.
FlipDownIfFree(b, pos) ==
    IF b.cards[pos] # NoCard /\ b.cards[pos].faceUp /\ ~isCardControlled(b, pos)
    THEN flipCardDown(b, pos)
    ELSE b

\* Clear toCleanUp and controlled, then notify the waiters of both positions.
Relinquish(b, id, firstPos, secondPos) ==
    notifyWaiters(
        notifyWaiters(
            [b EXCEPT !.playerStates[id].toCleanUp = <<>>,
                      !.playerStates[id].controlled = <<>>],
            firstPos),
        secondPos)

\* The cleanup prologue of flipCard (Rules 3-A and 3-B).
Cleanup(b, id) ==
    LET firstPos  == b.playerStates[id].toCleanUp[1]
        secondPos == b.playerStates[id].toCleanUp[2]
        b1 == IF CleanupMatches(b, firstPos, secondPos)
              THEN RemovePair(b, firstPos, secondPos)
              ELSE FlipDownIfFree(FlipDownIfFree(b, firstPos), secondPos)
    IN  Relinquish(b1, id, firstPos, secondPos)

\* CleanupRule without the test of retryingAfterWait.
CleanupRule_AlsoOnRetry(b, id, retryingAfterWait) ==
    IF Len(b.playerStates[id].toCleanUp) # 2
    THEN "none"
    ELSE IF CleanupMatches(b, b.playerStates[id].toCleanUp[1],
                              b.playerStates[id].toCleanUp[2])
         THEN "3-A" ELSE "3-B"

\* Which cleanup rule a call runs ("none" when the prologue is skipped).
CleanupRule(b, id, retryingAfterWait) ==
    IF retryingAfterWait \/ Len(b.playerStates[id].toCleanUp) # 2
    THEN "none"
    ELSE IF CleanupMatches(b, b.playerStates[id].toCleanUp[1],
                              b.playerStates[id].toCleanUp[2])
         THEN "3-A" ELSE "3-B"

\* FirstCard with Rule 1-C taking a face-up card without asking whether
\* another player controls it.
FirstCard_TakesControlled(b, pos, id) ==
    IF b.cards[pos] = NoCard
    THEN Outcome(b, "ok", "1-A")
    ELSE IF ~b.cards[pos].faceUp
    THEN Checked(pushControlled(flipCardUp(b, pos), id, pos), "1-B")
    ELSE Checked(pushControlled(b, id, pos), "1-C")

\* FirstCard without the Rule 1-A test for a removed card.
FirstCard_NoRule1A(b, pos, id) ==
    IF ~b.cards[pos].faceUp
    THEN Checked(pushControlled(flipCardUp(b, pos), id, pos), "1-B")
    ELSE IF ~isCardControlled(b, pos)
    THEN Checked(pushControlled(b, id, pos), "1-C")
    ELSE Outcome(waitForCard(b, pos, id), "wait", "1-D")

\* FirstCard with Rule 1-B taking control of the card without turning it.
FirstCard_NoFlipUp(b, pos, id) ==
    IF b.cards[pos] = NoCard
    THEN Outcome(b, "ok", "1-A")
    ELSE IF ~b.cards[pos].faceUp
    THEN Checked(pushControlled(b, id, pos), "1-B")
    ELSE IF ~isCardControlled(b, pos)
    THEN Checked(pushControlled(b, id, pos), "1-C")
    ELSE Outcome(waitForCard(b, pos, id), "wait", "1-D")

\* FirstCard with Rule 1-C waiting for a face-up card that nobody controls.
FirstCard_WaitsForFreeCard(b, pos, id) ==
    IF b.cards[pos] = NoCard
    THEN Outcome(b, "ok", "1-A")
    ELSE IF ~b.cards[pos].faceUp
    THEN Checked(pushControlled(flipCardUp(b, pos), id, pos), "1-B")
    ELSE Outcome(waitForCard(b, pos, id), "wait", "1-D")

\* CASE 1 after the prologue: Rules 1-A to 1-D on the re-read card.
FirstCard(b, pos, id) ==
    IF b.cards[pos] = NoCard
    THEN Outcome(b, "ok", "1-A")
    ELSE IF ~b.cards[pos].faceUp
    THEN Checked(pushControlled(flipCardUp(b, pos), id, pos), "1-B")
    ELSE IF ~isCardControlled(b, pos)
    THEN Checked(pushControlled(b, id, pos), "1-C")
    ELSE Outcome(waitForCard(b, pos, id), "wait", "1-D")

\* RelinquishFirst that also marks the first card for cleanup.
RelinquishFirst_MarksCleanup(b, id, firstPos) ==
    notifyWaiters([b EXCEPT !.playerStates[id].controlled = <<>>,
                            !.playerStates[id].toCleanUp = <<firstPos, firstPos>>],
                  firstPos)

\* Rules 2-A and 2-B: relinquish the first card and notify its waiters.
RelinquishFirst(b, id, firstPos) ==
    notifyWaiters([b EXCEPT !.playerStates[id].controlled = <<>>], firstPos)

\* Rule 2-D: keep both cards controlled and mark them for cleanup.
KeepPair(b, id, firstPos, pos) ==
    [pushControlled(b, id, pos) EXCEPT
        !.playerStates[id].toCleanUp = <<firstPos, pos>>]

\* Rule 2-E: mark both for cleanup, relinquish both, notify both.
GiveUpPair(b, id, firstPos, pos) ==
    notifyWaiters(
        notifyWaiters(
            [b EXCEPT !.playerStates[id].toCleanUp = <<firstPos, pos>>,
                      !.playerStates[id].controlled = <<>>],
            firstPos),
        pos)

\* CASE 2: the player controls one card; card is cards[pos] as read on entry.
SecondCard(b, pos, id) ==
    LET firstPos == b.playerStates[id].controlled[1]
        card     == b.cards[pos]
        b1       == IF ~card.faceUp THEN flipCardUp(b, pos) ELSE b
    IN  IF b.cards[firstPos] = NoCard
        THEN Outcome(b, "error", "assert")
        ELSE IF card = NoCard
        THEN Checked(RelinquishFirst(b, id, firstPos), "2-A")
        ELSE IF isCardControlled(b, pos)
        THEN Checked(RelinquishFirst(b, id, firstPos), "2-B")
        ELSE IF matches(card, b.cards[firstPos])
        THEN Checked(KeepPair(b1, id, firstPos, pos), "2-D")
        ELSE Checked(GiveUpPair(b1, id, firstPos, pos), "2-E")

\* CASE 1 is taken: pending cleanup, or nothing controlled.
IsFirstCardCase(state) ==
    Len(state.toCleanUp) = 2 \/ Len(state.controlled) = 0

\* flipCard with the bounds test placed after the get-or-create of the
\* player's state.
flipCard_BoundsAfterState(b0, pos, id, retryingAfterWait) ==
    IF pos \notin Pos
    THEN Outcome(getPlayerState(b0, id), "error", "bounds") @@ [cleanup |-> "none"]
    ELSE
      LET b     == getPlayerState(b0, id)
          state == b.playerStates[id]
      IN  IF IsFirstCardCase(state)
          THEN LET rule == CleanupRule(b, id, retryingAfterWait)
                   b1   == IF rule # "none" THEN Cleanup(b, id) ELSE b
               IN  FirstCard(b1, pos, id) @@ [cleanup |-> rule]
          ELSE IF Len(state.controlled) = 1
          THEN SecondCard(b, pos, id) @@ [cleanup |-> "none"]
          ELSE Checked(b, "none") @@ [cleanup |-> "none"]

\* flipCard deciding the first-card rule on the card as read on entry,
\* before the cleanup, instead of reading it again.
flipCard_StaleCard(b0, pos, id, retryingAfterWait) ==
    IF pos \notin Pos
    THEN Outcome(b0, "error", "bounds") @@ [cleanup |-> "none"]
    ELSE
      LET b     == getPlayerState(b0, id)
          state == b.playerStates[id]
      IN  IF IsFirstCardCase(state)
          THEN LET rule == CleanupRule(b, id, retryingAfterWait)
                   b1   == IF rule # "none" THEN Cleanup(b, id) ELSE b
               IN  FirstCard([b1 EXCEPT !.cards[pos] = b.cards[pos]], pos, id)
                     @@ [cleanup |-> rule]
          ELSE IF Len(state.controlled) = 1
          THEN SecondCard(b, pos, id) @@ [cleanup |-> "none"]
          ELSE Checked(b, "none") @@ [cleanup |-> "none"]

\* Board.flipCard, from entry to its return, throw or first await.
flipCard(b0, pos, id, retryingAfterWait) ==
    IF pos \notin Pos
    THEN Outcome(b0, "error", "bounds") @@ [cleanup |-> "none"]
    ELSE
      LET b     == getPlayerState(b0, id)
          state == b.playerStates[id]
      IN  IF IsFirstCardCase(state)
          THEN LET rule == CleanupRule(b, id, retryingAfterWait)
                   b1   == IF rule # "none" THEN Cleanup(b, id) ELSE b
               IN  FirstCard(b1, pos, id) @@ [cleanup |-> rule]
          ELSE IF Len(state.controlled) = 1
          THEN SecondCard(b, pos, id) @@ [cleanup |-> "none"]
          ELSE Checked(b, "none") @@ [cleanup |-> "none"]

\* The board as the rules of CASE 1 find it: the player's slot exists and
\* the cleanup prologue, when it applies, has run.
AfterPrologue(b0, id, retryingAfterWait) ==
    LET b == getPlayerState(b0, id)
    IN  IF CleanupRule(b, id, retryingAfterWait) # "none"
        THEN Cleanup(b, id)
        ELSE b

\* A flip that publishes although it changed no face and removed no card,
\* only the players' lists.
FlipPublishes_OnOwnership(b0, pos, id, retryingAfterWait) ==
    /\ pos \in Pos
    /\ flipCard(b0, pos, id, retryingAfterWait).board.playerStates
          # getPlayerState(b0, id).playerStates

\* The flip publishes a change: its cleanup or its rule turned a card or
\* removed one.
FlipPublishes(b0, pos, id, retryingAfterWait) ==
    /\ pos \in Pos
    /\ \/ AfterPrologue(b0, id, retryingAfterWait).cards # b0.cards
       \/ flipCard(b0, pos, id, retryingAfterWait).board.cards
             # AfterPrologue(b0, id, retryingAfterWait).cards

\* ------------------------------------------------------------------ mapCards

\* The board positions in row-major order.
RowMajor == [i \in 1 .. Rows * Cols |-> <<(i - 1) \div Cols, (i - 1) % Cols>>]

\* The positions that hold a card with the given content.
PositionsOf(cs, content) ==
    {pos \in Pos : cs[pos] # NoCard /\ cs[pos].content = content}

\* Index of the first row-major position holding the content.
FirstIndex(cs, content) ==
    CHOOSE i \in 1 .. Rows * Cols :
        /\ RowMajor[i] \in PositionsOf(cs, content)
        /\ \A j \in 1 .. i - 1 : RowMajor[j] \notin PositionsOf(cs, content)

\* contentToPositions: the cards grouped by content, in insertion order.
GroupByContent(cs) ==
    LET present == {c \in Contents : PositionsOf(cs, c) # {}}
        order   == CHOOSE s \in [1 .. Cardinality(present) -> present] :
                      \A i, j \in 1 .. Cardinality(present) :
                          i < j => FirstIndex(cs, s[i]) < FirstIndex(cs, s[j])
    IN  [i \in 1 .. Cardinality(present) |->
            [content |-> order[i], positions |-> PositionsOf(cs, order[i])]]

\* ApplyGroup rewriting every card that holds the group's content when the
\* group is applied, whether or not the card was grouped under it.
ApplyGroup_ByCurrentContent(cs, group, newContent) ==
    [pos \in Pos |->
        IF cs[pos] # NoCard /\ cs[pos].content = group.content
        THEN Card(newContent, cs[pos].faceUp)
        ELSE cs[pos]]

\* ApplyGroup building the new card without passing the old card's face.
ApplyGroup_FaceDown(cs, group, newContent) ==
    [pos \in Pos |->
        IF /\ pos \in group.positions
           /\ cs[pos] # NoCard
           /\ cs[pos].content = group.content
        THEN Card(newContent, FALSE)
        ELSE cs[pos]]

\* One group applied: every card of the group that is still on the board
\* with the original content gets the new content and keeps its face.
ApplyGroup(cs, group, newContent) ==
    [pos \in Pos |->
        IF /\ pos \in group.positions
           /\ cs[pos] # NoCard
           /\ cs[pos].content = group.content
        THEN Card(newContent, cs[pos].faceUp)
        ELSE cs[pos]]

\* ------------------------------------------------------------------ steps

RECURSIVE Queued(_)
Queued(i) ==
    IF i = 0 THEN 0 ELSE Len(waitQueues[RowMajor[i]]) + Queued(i - 1)

\* Number of flips suspended in waitForCard or resolved and not re-entered.
Suspended == Len(resolved) + Queued(Rows * Cols)

Install(out) ==
    /\ cards' = out.board.cards
    /\ playerStates' = out.board.playerStates
    /\ waitQueues' = out.board.waitQueues
    /\ resolved' = out.board.resolved

\* notifyChangeListeners resolving only the oldest listener.
notifyChangeListeners_OnlyFirst ==
    /\ changeListeners' = IF changeListeners = <<>> THEN <<>>
                          ELSE Tail(changeListeners)
    /\ released' = IF changeListeners = <<>> THEN released
                   ELSE released \cup {Head(changeListeners)}

\* notifyChangeListeners: the listeners are taken out and all resolved.
notifyChangeListeners ==
    /\ changeListeners' = <<>>
    /\ released' = released \cup SeqToSet(changeListeners)

\* A step that publishes when it changed something observers are told of.
PublishIf(changed) ==
    IF changed
    THEN notifyChangeListeners
    ELSE UNCHANGED <<changeListeners, released>>

Init ==
    /\ cards = [pos \in Pos |-> Card(InitialContent(pos), FALSE)]
    /\ playerStates = <<>>
    /\ waitQueues = [pos \in Pos |-> <<>>]
    /\ resolved = <<>>
    /\ maps = <<>>
    /\ mapCalls = 0
    /\ changeListeners = <<>>
    /\ released = {}

\* The player has a flip that is queued on a card or woken and not yet resumed.
HasSuspendedFlip(id) ==
    \/ \E i \in 1 .. Len(resolved) : resolved[i].player = id
    \/ \E p \in Pos : id \in SeqToSet(waitQueues[p])

\* A caller invokes flipCard(pos, id).
Flip(id, pos) ==
    LET out == flipCard(Board, pos, id, FALSE) IN
      /\ out.result = "wait" => Suspended < MaxWaiters
      /\ Install(out)
      /\ PublishIf(FlipPublishes(Board, pos, id, FALSE))
      /\ UNCHANGED <<maps, mapCalls>>

\* The board as the oldest resolved flip finds it when it re-enters.
ResumeBoard == [Board EXCEPT !.resolved = Tail(resolved)]

\* The flip of the oldest resolved Deferred re-enters flipCard(pos, id, true).
Resume ==
    /\ resolved # <<>>
    /\ Install(flipCard(ResumeBoard, Head(resolved).pos,
                        Head(resolved).player, TRUE))
    /\ PublishIf(FlipPublishes(ResumeBoard, Head(resolved).pos,
                               Head(resolved).player, TRUE))
    /\ UNCHANGED <<maps, mapCalls>>

\* A caller invokes getBoardState(id): the slot is created when missing.
Look(id) ==
    /\ playerStates' = getPlayerState(Board, id).playerStates
    /\ UNCHANGED <<cards, waitQueues, resolved, maps, mapCalls,
                   changeListeners, released>>

\* The contents on the board, position by position ("none": no card).
ContentsOf(cs) == [pos \in Pos |-> cs[pos].content]

\* mapCards(f) up to its first await: the cards are grouped by content.
\* With no card left there is nothing to await and the call ends at once.
\* (before records the contents the call found, changed whether it has
\* rewritten a card so far and invoked the contents f was called with; the
\* code keeps none of them.)
mapCards(f) ==
    /\ mapCalls' = mapCalls + 1
    /\ maps' = IF GroupByContent(cards) = <<>>
               THEN maps
               ELSE Append(maps, [f |-> f, todo |-> GroupByContent(cards),
                                  before |-> ContentsOf(cards),
                                  changed |-> FALSE,
                                  invoked |-> <<>>])
    /\ PublishIf(GroupByContent(cards) = <<>>)
    /\ UNCHANGED <<cards, playerStates, waitQueues, resolved>>

\* A caller invokes mapCards(f).
MapStart(f) ==
    /\ mapCalls < MaxMapCalls
    /\ mapCards(f)

\* The calls in flight once call i has ended.
WithoutCall(i) ==
    [j \in 1 .. Len(maps) - 1 |-> IF j < i THEN maps[j] ELSE maps[j + 1]]

\* f has settled for the next content of call i.  When it returned, the
\* group is rewritten, and after the last group the listeners are notified.
\* When it raised, mapCards rejects there and then.
MapApply(i) ==
    /\ i \in 1 .. Len(maps)
    /\ LET m     == maps[i]
           group == Head(m.todo)
       IN  IF m.f[group.content] = Raises
           THEN /\ maps' = WithoutCall(i)
                /\ UNCHANGED <<cards, changeListeners, released>>
           ELSE /\ cards' = ApplyGroup(cards, group, m.f[group.content])
                /\ maps' = IF Len(m.todo) = 1
                           THEN WithoutCall(i)
                           ELSE [maps EXCEPT
                                   ![i].todo = Tail(@),
                                   ![i].invoked = Append(@, group.content),
                                   ![i].changed =
                                       \/ @
                                       \/ ApplyGroup(cards, group,
                                                     m.f[group.content])
                                            # cards]
                /\ PublishIf(Len(m.todo) = 1)
    /\ UNCHANGED <<playerStates, waitQueues, resolved, mapCalls>>

\* An observer calls waitForChange: a new Deferred joins the listeners.
waitForChange(o) ==
    /\ o \notin SeqToSet(changeListeners)
    /\ changeListeners' = Append(changeListeners, o)
    /\ released' = released \ {o}
    /\ UNCHANGED <<cards, playerStates, waitQueues, resolved, maps, mapCalls>>

Next ==
    \/ \E id \in Players, pos \in Targets : Flip(id, pos)
    \/ Resume
    \/ \E id \in Players : Look(id)
    \/ \E f \in Transforms : MapStart(f)
    \/ \E i \in 1 .. MaxMapCalls : MapApply(i)

Spec == Init /\ [][Next]_vars

\* The transformer passed to mapCards in the runs with overlapping calls.
OverlapTransforms == {Swap}

\* The transformers passed to mapCards in the runs with observers.
WatchedTransforms == {Swap, Identity}

\* The players, one mapCards call and one observer.
NextWatched ==
    \/ \E id \in Players, pos \in Pos : Flip(id, pos)
    \/ Resume
    \/ \E f \in WatchedTransforms : MapStart(f)
    \/ \E i \in 1 .. MaxMapCalls : MapApply(i)
    \/ waitForChange("v")

SpecWatched == Init /\ [][NextWatched]_vars

\* One player, one mapCards call and all the observers.
NextObserved ==
    \/ \E pos \in Pos : Flip("a", pos)
    \/ \E f \in WatchedTransforms : MapStart(f)
    \/ \E i \in 1 .. MaxMapCalls : MapApply(i)
    \/ \E o \in Observers : waitForChange(o)

SpecObserved == Init /\ [][NextObserved]_vars

\* Callers that take turns: no flip and no other mapCards call runs while a
\* mapCards call is in flight, and a second call may follow the first.
MaxSequential == 2

SequentialTransforms == Transforms \cup {Identity}

NextSequential ==
    \/ \E id \in Players, pos \in Pos : maps = <<>> /\ Flip(id, pos)
    \/ maps = <<>> /\ Resume
    \/ \E f \in SequentialTransforms :
          maps = <<>> /\ mapCalls < MaxSequential /\ mapCards(f)
    \/ MapApply(1)

SpecSequential == Init /\ [][NextSequential]_vars

\* Callers of mapCards that do not wait for each other: a second call may
\* start while the first is awaiting f.
MaxOverlap == 2

MapStartOverlap(f) ==
    /\ mapCalls < MaxOverlap
    /\ mapCards(f)

NextOverlap ==
    \/ \E id \in Players, pos \in Pos : Flip(id, pos)
    \/ Resume
    \/ \E f \in OverlapTransforms : MapStartOverlap(f)
    \/ \E i \in 1 .. MaxOverlap : MapApply(i)

SpecOverlap == Init /\ [][NextOverlap]_vars

\* Three callers that only flip, with room for two suspended flips: the
\* runs in which a queue holds the flips of two different players.
MaxQueued == 2

QueuePlayers == {"a", "b", "c"}

\* The cards these callers pick: the matching pair of the board.
QueueTargets == {pos \in Pos : pos[2] < 2}

FlipQueued(id, pos) ==
    LET out == flipCard(Board, pos, id, FALSE) IN
      /\ out.result = "wait" => Suspended < MaxQueued
      /\ Install(out)
      /\ PublishIf(FlipPublishes(Board, pos, id, FALSE))
      /\ UNCHANGED <<maps, mapCalls>>

NextQueued ==
    \/ \E id \in QueuePlayers, pos \in QueueTargets : FlipQueued(id, pos)
    \/ Resume

SpecQueued == Init /\ [][NextQueued]_vars

\* ------------------------------------------------------------------ view

\* ViewLine showing "my" for a card that any player controls.
ViewLine_MyForAnyController(b, id, pos) ==
    IF b.cards[pos] = NoCard THEN <<"none">>
    ELSE IF ~b.cards[pos].faceUp THEN <<"down">>
    ELSE IF isCardControlled(b, pos)
         THEN <<"my", b.cards[pos].content>>
         ELSE <<"up", b.cards[pos].content>>

\* ViewLine printing the content of a face-down card after "down".
ViewLine_RevealsFaceDown(b, id, pos) ==
    IF b.cards[pos] = NoCard THEN <<"none">>
    ELSE IF ~b.cards[pos].faceUp THEN <<"down", b.cards[pos].content>>
    ELSE IF pos \in SeqToSet(getPlayerState(b, id).playerStates[id].controlled)
         THEN <<"my", b.cards[pos].content>>
         ELSE <<"up", b.cards[pos].content>>

\* Board.getBoardState, one line: what player id is shown at pos.
ViewLine(b, id, pos) ==
    IF b.cards[pos] = NoCard THEN <<"none">>
    ELSE IF ~b.cards[pos].faceUp THEN <<"down">>
    ELSE IF pos \in SeqToSet(getPlayerState(b, id).playerStates[id].controlled)
         THEN <<"my", b.cards[pos].content>>
         ELSE <<"up", b.cards[pos].content>>

\* Board.getBoardState: the "RxC" line, then one line per card, row by row.
getBoardState(b, id) ==
    <<<<Rows, "x", Cols>>>> \o
    [i \in 1 .. Rows * Cols |-> ViewLine(b, id, RowMajor[i])]

\* The positions player id controls on board b (none without a slot).
ControlledBy(b, id) ==
    IF id \in DOMAIN b.playerStates
    THEN SeqToSet(b.playerStates[id].controlled)
    ELSE {}

\* ------------------------------------------------------------------ claims

\* C1: no coordinate is in the controlled lists of two different players, in
\* every state reachable by interleaved flips, suspensions and resumptions.
C1_NoDoubleControl ==
    \A id1, id2 \in Players :
        id1 # id2 => ControlledBy(Board, id1) \cap ControlledBy(Board, id2) = {}

\* C1 witness: both players control a card while a flip is suspended.
C1_Witness ==
    /\ \A id \in Players : ControlledBy(Board, id) # {}
    /\ Suspended > 0

\* C2: every controlled coordinate refers to a present, face-up card.
C2_ControlledPresentFaceUp ==
    \A id \in Players : \A pos \in ControlledBy(Board, id) :
        cards[pos] # NoCard /\ cards[pos].faceUp

\* C3: every player controls at most 2 cards and has 0 or 2 cards to clean up.
C3_ListSizes ==
    \A id \in DOMAIN playerStates :
        /\ Len(playerStates[id].controlled) <= 2
        /\ Len(playerStates[id].toCleanUp) \in {0, 2}

HoldsMatchedPair(id, p, q) ==
    /\ id \in DOMAIN playerStates
    /\ playerStates[id].controlled = <<p, q>>
    /\ playerStates[id].toCleanUp = <<p, q>>
    /\ CleanupMatches(Board, p, q)

\* C5: a pair matched by Rule 2-D stays on the board, face up and controlled
\* by its player through every step, until a new flip of that player removes
\* both cards (every view then shows "none" for both).
C5_MatchedPairHeldThenRemoved ==
    [][\A id \in Players : \A p, q \in Pos :
          HoldsMatchedPair(id, p, q) =>
            \/ /\ cards'[p] # NoCard /\ cards'[p].faceUp
               /\ cards'[q] # NoCard /\ cards'[q].faceUp
               /\ {p, q} \subseteq SeqToSet(playerStates'[id].controlled)
               /\ playerStates'[id].toCleanUp = <<p, q>>
            \/ /\ \E pos \in Pos : Flip(id, pos)
               /\ cards'[p] = NoCard /\ cards'[q] = NoCard]_vars

\* Player id would enter CASE 1 of flipCard (first card).
FirstCardCaller(b, id) ==
    id \notin DOMAIN b.playerStates \/ IsFirstCardCase(b.playerStates[id])

\* C6: of two first-card flips of different players on the same face-down,
\* uncontrolled card, the one that runs first controls the card alone and the
\* other then suspends on it (Rule 1-D); the card never has two controllers.
C6_FirstFlipRace ==
    \A p \in Pos : \A id1, id2 \in Players :
        ( /\ id1 # id2
          /\ cards[p] # NoCard /\ ~cards[p].faceUp
          /\ ~isCardControlled(Board, p)
          /\ FirstCardCaller(Board, id1) /\ FirstCardCaller(Board, id2) )
        =>
        LET o1 == flipCard(Board, p, id1, FALSE)
            o2 == flipCard(o1.board, p, id2, FALSE)
        IN  /\ p \in ControlledBy(o1.board, id1)
            /\ p \notin ControlledBy(o1.board, id2)
            /\ o2.rule = "1-D"
            /\ id2 \in SeqToSet(o2.board.waitQueues[p])
            /\ p \in ControlledBy(o2.board, id1)
            /\ p \notin ControlledBy(o2.board, id2)

\* C7: a flip by a player who controls exactly one card never suspends; when
\* the target is controlled (by anyone) it returns at once, the player's
\* controlled list is empty, the first card is still face up, the waiters of
\* the first card have been woken and no other player's state has changed.
C7_SecondFlipNeverWaits ==
    \A id \in DOMAIN playerStates : \A pos \in Pos :
        Len(playerStates[id].controlled) = 1 =>
          LET first == playerStates[id].controlled[1]
              out   == flipCard(Board, pos, id, FALSE)
          IN  /\ out.result # "wait"
              /\ isCardControlled(Board, pos) =>
                   /\ out.result = "ok"
                   /\ out.board.playerStates[id].controlled = <<>>
                   /\ out.board.cards[first] # NoCard
                   /\ out.board.cards[first].faceUp
                   /\ out.board.waitQueues[first] = <<>>
                   /\ \A other \in DOMAIN playerStates \ {id} :
                        out.board.playerStates[other] = playerStates[other]

\* C8: the step in which a player stops controlling a card wakes, in that
\* same step, every flip queued on the card.
C8_RelinquishWakesWaiters ==
    [][\A id \in Players : \A p \in Pos :
          ( /\ p \in ControlledBy(Board, id)
            /\ waitQueues[p] # <<>>
            /\ p \notin SeqToSet(playerStates'[id].controlled) )
          =>
          /\ waitQueues'[p] = <<>>
          /\ \A k \in 1 .. Len(waitQueues[p]) :
               [player |-> waitQueues[p][k], pos |-> p] \in SeqToSet(resolved')]_vars

\* C9: a woken flip that re-enters while its card is still on the board and
\* controlled by nobody completes with its player controlling the card (the
\* player's view shows "my <content>").
C9_WokenFlipTakesFreeCard ==
    resolved # <<>> =>
      LET w   == Head(resolved)
          out == flipCard(ResumeBoard, w.pos, w.player, TRUE)
      IN  (cards[w.pos] # NoCard /\ ~isCardControlled(ResumeBoard, w.pos)) =>
            /\ out.result = "ok"
            /\ w.pos \in ControlledBy(out.board, w.player)
            /\ ViewLine(out.board, w.player, w.pos)
                 = <<"my", cards[w.pos].content>>

\* C10: a woken flip that re-enters after its card was removed takes Rule
\* 1-A and completes without error, its player controls nothing and the
\* card is shown as "none".
C10_WokenFlipOnRemovedCard ==
    resolved # <<>> =>
      LET w   == Head(resolved)
          out == flipCard(ResumeBoard, w.pos, w.player, TRUE)
      IN  cards[w.pos] = NoCard =>
            /\ out.rule = "1-A"
            /\ out.result = "ok"
            /\ ControlledBy(out.board, w.player) = {}
            /\ ViewLine(out.board, w.player, w.pos) = <<"none">>

\* The queue of pos as the Deferreds notifyWaiters resolves.
QueueRecords(pos) ==
    [i \in 1 .. Len(waitQueues[pos]) |->
        [player |-> waitQueues[pos][i], pos |-> pos]]

\* C11: when the queue of a card is signalled, its flips are released in the
\* order in which they were enqueued: they enter the resumption order as one
\* block, earlier enqueued first.
C11_WakeOrderIsEnqueueOrder ==
    [][\A pos \in Pos :
          ( /\ waitQueues[pos] # <<>>
            /\ waitQueues'[pos] # waitQueues[pos]
            /\ \A id \in QueuePlayers :
                 waitQueues'[pos] # Append(waitQueues[pos], id) )
          =>
          \E k \in 0 .. Len(resolved') :
              /\ k + Len(waitQueues[pos]) <= Len(resolved')
              /\ \A i \in 1 .. Len(waitQueues[pos]) :
                   resolved'[k + i] = QueueRecords(pos)[i]]_vars

\* C11 witness: the flips of two different players, queued on one card, have
\* just been released together.
C11_Witness ==
    /\ Len(resolved) = 2
    /\ resolved[1].pos = resolved[2].pos
    /\ resolved[1].player # resolved[2].player

\* C12: a flip outside the board raises an error and changes nothing: no
\* card, no controlled or toCleanUp list (a pending cleanup of the caller is
\* not run), no queue, and no player slot is created.
C12_OutOfBoundsChangesNothing ==
    \A id \in Players : \A pos \in OutOfBounds :
        LET out == flipCard(Board, pos, id, FALSE)
        IN  /\ out.result = "error"
            /\ out.rule = "bounds"
            /\ out.board = Board

\* C12 witness: one player has a pending cleanup while the other has no
\* slot yet.
C12_Witness ==
    /\ \E id \in DOMAIN playerStates : Len(playerStates[id].toCleanUp) = 2
    /\ \E id \in Players : id \notin DOMAIN playerStates

\* The call is a first-card flip: CASE 1 is taken and the player controls
\* nothing once the prologue is over.
IsFirstCardFlip(b0, id, retryingAfterWait) ==
    /\ IsFirstCardCase(getPlayerState(b0, id).playerStates[id])
    /\ AfterPrologue(b0, id, retryingAfterWait).playerStates[id].controlled = <<>>

\* Player id alone controls pos on board b, and the views say so.
SoleController(b, id, pos) ==
    /\ b.playerStates[id].controlled = <<pos>>
    /\ ViewLine(b, id, pos) = <<"my", b.cards[pos].content>>
    /\ \A other \in Players \ {id} :
         /\ pos \notin ControlledBy(b, other)
         /\ ViewLine(b, other, pos) = <<"up", b.cards[pos].content>>

\* Rule 1-B as C13 states it, for one call of flipCard on board b0.
TakesFaceDownCard(b0, pos, id, retryingAfterWait) ==
    LET pre == AfterPrologue(b0, id, retryingAfterWait)
        out == flipCard(b0, pos, id, retryingAfterWait)
    IN  ( /\ IsFirstCardFlip(b0, id, retryingAfterWait)
          /\ pre.cards[pos] # NoCard
          /\ ~pre.cards[pos].faceUp )
        =>
        /\ out.result # "wait"
        /\ out.board.cards[pos] = Card(pre.cards[pos].content, TRUE)
        /\ SoleController(out.board, id, pos)

\* C13: a first-card flip (the player controls nothing after any cleanup) on
\* a card that is on the board and face down turns it face up and makes the
\* flipper its only controller without suspending; the flipper is shown
\* "my <content>" and every other player "up <content>".  Checked for every
\* new call and for the resumption of the oldest woken flip.
C13_FirstFlipFaceDown ==
    /\ \A id \in Players : \A pos \in Pos :
         TakesFaceDownCard(Board, pos, id, FALSE)
    /\ resolved # <<>> =>
         TakesFaceDownCard(ResumeBoard, Head(resolved).pos,
                           Head(resolved).player, TRUE)

\* C13 witness: a player who took a face-down card as first card, after a
\* cleanup that turned the cards of an earlier mismatch face down.
C13_Witness ==
    \E id \in DOMAIN playerStates : \E pos \in Pos :
        /\ playerStates[id] = [controlled |-> <<pos>>, toCleanUp |-> <<>>]
        /\ cards[pos].faceUp
        /\ \E q \in Pos \ {pos} : cards[q] # NoCard /\ ~cards[q].faceUp
        /\ \E other \in DOMAIN playerStates \ {id} :
             Len(playerStates[other].toCleanUp) = 2

\* Every card that is on board b2 faces the way it faced on board b1.
SameFaces(b1, b2) ==
    \A q \in Pos : b2.cards[q] # NoCard => b2.cards[q].faceUp = b1.cards[q].faceUp

\* Rule 1-C for one call of flipCard on board b0: the card is on the board,
\* face up and uncontrolled when the rules of CASE 1 look at it; the flipper
\* gets it without suspending and the faces are those of board base.
TakesFaceUpCard(b0, base, pos, id, retryingAfterWait) ==
    LET pre == AfterPrologue(b0, id, retryingAfterWait)
        out == flipCard(b0, pos, id, retryingAfterWait)
    IN  ( /\ IsFirstCardFlip(b0, id, retryingAfterWait)
          /\ pre.cards[pos] # NoCard
          /\ pre.cards[pos].faceUp
          /\ ~isCardControlled(pre, pos) )
        =>
        /\ out.result # "wait"
        /\ SoleController(out.board, id, pos)
        /\ SameFaces(base, out.board)

\* C14 as stated: a first-card flip on a face-up card that nobody controls
\* gives the flipper control without suspending and leaves every card facing
\* the way it faced when the flip was called; the other players see the card
\* as "up <content>".
C14_FirstFlipFaceUpFree ==
    \A id \in Players : \A pos \in Pos :
        TakesFaceUpCard(Board, Board, pos, id, FALSE)

\* C14 amended: as C14, except that the faces are compared with the board as
\* the flipper's own cleanup prologue left it (Rule 3-B may have turned the
\* flipper's earlier mismatch face down): taking the card turns no card.
\* Checked for every new call and for the resumption of the oldest woken flip.
C14_FirstFlipFaceUpFreeAfterCleanup ==
    /\ \A id \in Players : \A pos \in Pos :
         TakesFaceUpCard(Board, AfterPrologue(Board, id, FALSE), pos, id, FALSE)
    /\ resolved # <<>> =>
         TakesFaceUpCard(ResumeBoard, ResumeBoard, Head(resolved).pos,
                         Head(resolved).player, TRUE)

\* C14 witness: a player controls, as only card, a card that is still
\* listed in the other player's toCleanUp, while another card is face down.
C14_Witness ==
    \E id \in DOMAIN playerStates : \E other \in DOMAIN playerStates \ {id} :
      \E pos \in Pos :
        /\ playerStates[id] = [controlled |-> <<pos>>, toCleanUp |-> <<>>]
        /\ pos \in SeqToSet(playerStates[other].toCleanUp)
        /\ playerStates[other].controlled = <<>>
        /\ \E q \in Pos : cards[q] # NoCard /\ ~cards[q].faceUp

\* Every flip queued on pos on board b is, on board b2, no longer queued
\* and its Deferred is resolved.
Woken(b, b2, pos) ==
    /\ b2.waitQueues[pos] = <<>>
    /\ \A k \in 1 .. Len(b.waitQueues[pos]) :
         [player |-> b.waitQueues[pos][k], pos |-> pos] \in SeqToSet(b2.resolved)

\* C15: a flip by a player who controls exactly one card, on a removed card,
\* returns without error, empties the player's controlled list, leaves the
\* first card on the board and face up, wakes the flips queued on the first
\* card and changes no card.
C15_SecondFlipOnRemovedCard ==
    \A id \in DOMAIN playerStates : \A pos \in Pos :
        (Len(playerStates[id].controlled) = 1 /\ cards[pos] = NoCard) =>
          LET first == playerStates[id].controlled[1]
              out   == flipCard(Board, pos, id, FALSE)
          IN  /\ out.result = "ok"
              /\ out.board.playerStates[id].controlled = <<>>
              /\ out.board.cards[first] # NoCard
              /\ out.board.cards[first].faceUp
              /\ Woken(Board, out.board, first)
              /\ out.board.cards = cards

\* Player id controls exactly one card, and pos holds a card that nobody
\* controls.
SecondFlipOnFreeCard(id, pos) ==
    /\ id \in DOMAIN playerStates
    /\ Len(playerStates[id].controlled) = 1
    /\ cards[playerStates[id].controlled[1]] # NoCard
    /\ cards[pos] # NoCard
    /\ ~isCardControlled(Board, pos)

\* C16: a flip by a player who controls exactly one card, on a card that is
\* on the board, uncontrolled (face down or face up) and equal in content to
\* the first card, leaves both cards face up, makes the player's controlled
\* list <<first, second>>, sets toCleanUp to the same pair and wakes no flip.
C16_SecondFlipMatch ==
    \A id \in Players : \A pos \in Pos :
        ( /\ SecondFlipOnFreeCard(id, pos)
          /\ matches(cards[pos], cards[playerStates[id].controlled[1]]) )
        =>
          LET first == playerStates[id].controlled[1]
              out   == flipCard(Board, pos, id, FALSE)
          IN  /\ out.board.cards[first] = Card(cards[first].content, TRUE)
              /\ out.board.cards[pos] = Card(cards[pos].content, TRUE)
              /\ out.board.playerStates[id].controlled = <<first, pos>>
              /\ out.board.playerStates[id].toCleanUp = <<first, pos>>
              /\ out.board.waitQueues = waitQueues
              /\ out.board.resolved = resolved

\* C17: a flip by a player who controls exactly one card, on a card that is
\* on the board, uncontrolled and different in content from the first card,
\* leaves both cards face up and in nobody's controlled list, sets the
\* player's toCleanUp to <<first, second>> and wakes the flips queued on
\* both cards.
C17_SecondFlipMismatch ==
    \A id \in Players : \A pos \in Pos :
        ( /\ SecondFlipOnFreeCard(id, pos)
          /\ ~matches(cards[pos], cards[playerStates[id].controlled[1]]) )
        =>
          LET first == playerStates[id].controlled[1]
              out   == flipCard(Board, pos, id, FALSE)
          IN  /\ out.board.cards[first] = Card(cards[first].content, TRUE)
              /\ out.board.cards[pos] = Card(cards[pos].content, TRUE)
              /\ ~isCardControlled(out.board, first)
              /\ ~isCardControlled(out.board, pos)
              /\ out.board.playerStates[id].toCleanUp = <<first, pos>>
              /\ Woken(Board, out.board, first)
              /\ Woken(Board, out.board, pos)

\* The card at q is on the board, face up and in no controlled list.
FaceUpAndFree(b, q) ==
    b.cards[q] # NoCard /\ b.cards[q].faceUp /\ ~isCardControlled(b, q)

\* Player id has a pair in toCleanUp whose cards do not match (or are gone).
HasMismatchedPair(id) ==
    /\ id \in DOMAIN playerStates
    /\ Len(playerStates[id].toCleanUp) = 2
    /\ ~CleanupMatches(Board, playerStates[id].toCleanUp[1],
                              playerStates[id].toCleanUp[2])

\* C18: in the next flip of a player whose toCleanUp holds a mismatched pair,
\* each of the two cards is turned face down if and only if it is on the
\* board, face up and in no controlled list at that moment; a card another
\* player has taken stays face up and controlled by that player, also when
\* the flip is over.
C18_MismatchCleanup ==
    \A id \in Players : \A pos \in Pos :
        HasMismatchedPair(id) =>
          LET post == AfterPrologue(Board, id, FALSE)
              out  == flipCard(Board, pos, id, FALSE)
          IN  \A q \in SeqToSet(playerStates[id].toCleanUp) :
                /\ FaceUpAndFree(Board, q) =>
                     post.cards[q] = Card(cards[q].content, FALSE)
                /\ ~FaceUpAndFree(Board, q) => post.cards[q] = cards[q]
                /\ q # pos => out.board.cards[q] = post.cards[q]
                /\ \A other \in Players \ {id} :
                     q \in ControlledBy(Board, other) =>
                       /\ out.board.cards[q] = Card(cards[q].content, TRUE)
                       /\ q \in ControlledBy(out.board, other)

\* C18 witness: a player has a mismatched pair pending of which the other
\* player has taken one card while the other card is still face up and free.
C18_Witness ==
    \E id \in Players : \E other \in Players \ {id} :
        /\ HasMismatchedPair(id)
        /\ \E q \in SeqToSet(playerStates[id].toCleanUp) :
             q \in ControlledBy(Board, other)
        /\ \E q \in SeqToSet(playerStates[id].toCleanUp) :
             FaceUpAndFree(Board, q)

\* Player id controls nothing and has no cleanup pending on board b.
HasNothing(b, id) ==
    getPlayerState(b, id).playerStates[id] = PlayerState

\* C19: a first-card flip on a removed card by a player who controls nothing
\* and has no cleanup pending returns normally and leaves the cards, every
\* player's controlled and toCleanUp lists and every queue as they were (a
\* player without a slot gets one, with empty lists).  Checked for every new
\* call and for the resumption of the oldest woken flip.
C19_FirstFlipOnRemovedCard ==
    /\ \A id \in Players : \A pos \in Pos :
         (HasNothing(Board, id) /\ cards[pos] = NoCard) =>
           LET out == flipCard(Board, pos, id, FALSE)
           IN  /\ out.result = "ok"
               /\ out.board = getPlayerState(Board, id)
    /\ resolved # <<>> =>
         LET w   == Head(resolved)
             out == flipCard(ResumeBoard, w.pos, w.player, TRUE)
         IN  (HasNothing(ResumeBoard, w.player) /\ cards[w.pos] = NoCard) =>
               /\ out.result = "ok"
               /\ out.board = ResumeBoard

\* C19 witness: a card has been removed, a flip is suspended and some player
\* controls nothing and has no cleanup pending.
C19_Witness ==
    /\ \E pos \in Pos : cards[pos] = NoCard
    /\ Suspended > 0
    /\ \E id \in Players : HasNothing(Board, id)

\* C20: the view of a player is the "RxC" line followed, in row-major order,
\* by one line per card: "none" iff the card is removed, "down" iff it is on
\* the board face down, "my <content>" iff it is on the board, face up and
\* in that player's controlled list, "up <content>" iff it is on the board,
\* face up and not in that player's controlled list.
C20_ViewLines ==
    \A id \in Players :
        LET view == getBoardState(Board, id)
        IN  /\ Len(view) = Rows * Cols + 1
            /\ view[1] = <<Rows, "x", Cols>>
            /\ \A r \in 0 .. Rows - 1 : \A c \in 0 .. Cols - 1 :
                 LET line    == view[r * Cols + c + 2]
                     card    == cards[<<r, c>>]
                     present == card # NoCard
                     mine    == <<r, c>> \in ControlledBy(Board, id)
                 IN  /\ line = <<"none">> <=> ~present
                     /\ line = <<"down">> <=> (present /\ ~card.faceUp)
                     /\ line = <<"my", card.content>> <=>
                          (present /\ card.faceUp /\ mine)
                     /\ line = <<"up", card.content>> <=>
                          (present /\ card.faceUp /\ ~mine)

\* C20 witness: some player's view has a "my", an "up" and a "down" line.
C20_Witness ==
    \E id \in Players : \E p, q, r \in Pos :
        /\ ViewLine(Board, id, p)[1] = "my"
        /\ ViewLine(Board, id, q)[1] = "up"
        /\ ViewLine(Board, id, r)[1] = "down"

\* C21: a view changes nothing but the caller's slot.  In every reachable
\* state, also while flips are suspended, getBoardState(id) can run at once;
\* a second call right after the first returns the same text; the cards, the
\* wait queues, the resolved flips and every existing player's controlled and
\* toCleanUp lists are left as they were; and for a caller the board has
\* never seen the only effect is a new slot with empty lists, with no line of
\* the text starting with "my".
C21_ViewIsPure ==
    \A id \in QueuePlayers :
        LET after == getPlayerState(Board, id)
            text  == getBoardState(Board, id)
        IN  /\ id \in Players => ENABLED Look(id)
            /\ getBoardState(after, id) = text
            /\ after.cards = cards
            /\ after.waitQueues = waitQueues
            /\ after.resolved = resolved
            /\ DOMAIN after.playerStates = DOMAIN playerStates \cup {id}
            /\ \A p \in DOMAIN playerStates :
                 after.playerStates[p] = playerStates[p]
            /\ id \notin DOMAIN playerStates =>
                 /\ after.playerStates[id] = PlayerState
                 /\ \A i \in 2 .. Len(text) : text[i][1] # "my"

\* A flip is suspended on a card another player controls, and a caller the
\* board has never seen asks for its view.
C21_Witness ==
    /\ Suspended > 0
    /\ \E id \in QueuePlayers : id \notin DOMAIN playerStates
    /\ \E pos \in Pos : isCardControlled(Board, pos)

\* Two cards that call i of mapCards found with the same content.
PairedBefore(i, p, q) ==
    /\ p # q
    /\ maps[i].before[p] # "none"
    /\ maps[i].before[p] = maps[i].before[q]

\* C22: pairwise consistency during a transform.  From the start of a
\* mapCards call until the state in which it has returned, after every step
\* (a flip, a resumed flip, a view, a step of this or another mapCards call)
\* any two cards that the call found with equal contents and that are both
\* still on the board have equal contents; and a player who controls one of
\* them alone, with nothing to clean up, and flips the other while nobody
\* controls it, gets Rule 2-D.
C22_PairwiseConsistent ==
    [][\A i \in 1 .. Len(maps) : \A p, q \in Pos :
          (PairedBefore(i, p, q) /\ cards'[p] # NoCard /\ cards'[q] # NoCard)
          => /\ cards'[p].content = cards'[q].content
             /\ \A id \in DOMAIN playerStates' :
                  (/\ playerStates'[id].controlled = <<p>>
                   /\ playerStates'[id].toCleanUp = <<>>
                   /\ ~isCardControlled(Board', q))
                  => flipCard(Board', q, id, FALSE).rule = "2-D"]_vars

\* C23: a transform changes contents only.  Every step in which mapCards
\* settles one content (rewrites its group, or ends on a raised f) leaves
\* each card's face and each position's removed status as they were, and
\* leaves every player's controlled and toCleanUp lists as they were.
C23_TransformChangesOnlyContents ==
    [][(\E i \in 1 .. MaxOverlap : MapApply(i))
       => /\ \A pos \in Pos :
               /\ (cards'[pos] = NoCard) <=> (cards[pos] = NoCard)
               /\ cards'[pos].faceUp = cards[pos].faceUp
          /\ playerStates' = playerStates]_vars

\* A group has been rewritten while the call is still in flight: a card
\* that changed content is face up and controlled, and some player has a
\* pair to clean up.
C23_Witness ==
    /\ \E i \in 1 .. Len(maps) :
          \E pos \in Pos :
             /\ cards[pos] # NoCard
             /\ cards[pos].content # maps[i].before[pos]
             /\ cards[pos].faceUp
             /\ isCardControlled(Board, pos)
    /\ \E id \in DOMAIN playerStates : Len(playerStates[id].toCleanUp) = 2

\* Call i of mapCards ends in this step because f raised.
RaisesNow(i) ==
    /\ i \in 1 .. Len(maps)
    /\ maps[i].f[Head(maps[i].todo).content] = Raises
    /\ MapApply(i)

\* C24: a transform whose f raises leaves no partial substitution.  When a
\* mapCards call ends because f raised for some content, every card still on
\* the board has the content it had when the call started, also the cards
\* whose content the call had already settled.
C24_RaiseLeavesBoardAsBefore ==
    [][\A i \in 1 .. MaxOverlap :
          RaisesNow(i)
          => \A pos \in Pos :
               cards'[pos] # NoCard
               => cards'[pos].content = maps[i].before[pos]]_vars

\* This step resolves the waitForChange of at least one observer.
ReleasesObserver == released' \ released # {}

\* This step is a flip, new or resumed, that turned a card or removed one.
FaceOrRemovalStep ==
    \/ \E id \in Players, pos \in Pos :
          Flip(id, pos) /\ FlipPublishes(Board, pos, id, FALSE)
    \/ /\ Resume
       /\ FlipPublishes(ResumeBoard, Head(resolved).pos,
                        Head(resolved).player, TRUE)

\* This step is a step of a mapCards call that has changed the content of
\* a card, in this step or in an earlier one.
ContentStep ==
    \E i \in 1 .. Len(maps) :
        /\ MapApply(i)
        /\ maps[i].changed \/ ContentsOf(cards') # ContentsOf(cards)

\* This step is the one in which a mapCards call returns.
TransformReturns ==
    \/ \E i \in 1 .. Len(maps) :
          /\ MapApply(i)
          /\ Len(maps[i].todo) = 1
          /\ maps[i].f[Head(maps[i].todo).content] # Raises
    \/ \E f \in Transforms \cup WatchedTransforms :
          MapStart(f) /\ GroupByContent(cards) = <<>>

\* The flip changes ownership only: its cleanup, if any, leaves every card
\* as it is, and its rule is 1-C, 2-A, 2-B, or 2-D/2-E on a second card that
\* is already face up.
OwnershipOnly(b0, pos, id, retryingAfterWait) ==
    LET out == flipCard(b0, pos, id, retryingAfterWait)
    IN  /\ pos \in Pos
        /\ AfterPrologue(b0, id, retryingAfterWait).cards = b0.cards
        /\ \/ out.rule \in {"1-C", "2-A", "2-B"}
           \/ out.rule \in {"2-D", "2-E"} /\ b0.cards[pos].faceUp

\* This step is a flip, new or resumed, that changes ownership only.
OwnershipStep ==
    \/ \E id \in Players, pos \in Pos :
          Flip(id, pos) /\ OwnershipOnly(Board, pos, id, FALSE)
    \/ /\ Resume
       /\ OwnershipOnly(ResumeBoard, Head(resolved).pos,
                        Head(resolved).player, TRUE)

\* Flips that change ownership only leave the observers waiting: a step
\* that takes an observer out of changeListeners is not one of them.
OwnershipStepsKeepObservers ==
    (SeqToSet(changeListeners) \ SeqToSet(changeListeners') # {})
    => ~OwnershipStep

\* C25 as stated: an observer suspended in waitForChange is released only by
\* a step that turns a card, removes a card or changes a content through
\* mapCards; flips that change ownership only never release it.
C25_ReleasedOnlyByVisibleChange ==
    [][/\ ReleasesObserver => (FaceOrRemovalStep \/ ContentStep)
       /\ OwnershipStepsKeepObservers]_vars

\* C25: an observer suspended in waitForChange is released only by a step
\* that turns a card or removes a card, or by the step in which a mapCards
\* call returns, whether or not that call changed any content; flips that
\* change ownership only never release it.
C25_ReleasedByVisibleChangeOrTransformReturn ==
    [][/\ ReleasesObserver => (FaceOrRemovalStep \/ TransformReturns)
       /\ OwnershipStepsKeepObservers]_vars

\* An observer is waiting and none was ever released, while a player
\* controls a card that another player left face up for cleanup (Rule 1-C).
C25_Witness ==
    /\ changeListeners # <<>>
    /\ released = {}
    /\ \E id, other \in DOMAIN playerStates :
          /\ id # other
          /\ Len(playerStates[other].toCleanUp) = 2
          /\ \E pos \in SeqToSet(playerStates[other].toCleanUp) :
                playerStates[id].controlled = <<pos>>

\* C26: a publish is a one-shot broadcast.  A step that releases an observer
\* releases every observer that was waiting and leaves changeListeners
\* empty, and it releases nobody else; an observer that calls waitForChange
\* is waiting afterwards and not released, whatever was published before its
\* call.
C26_PublishReleasesAllWaiting ==
    [][/\ ReleasesObserver
          => /\ changeListeners' = <<>>
             /\ SeqToSet(changeListeners) \subseteq released'
             /\ released' \ released \subseteq SeqToSet(changeListeners)
       /\ \A o \in Observers :
            waitForChange(o)
            => /\ o \in SeqToSet(changeListeners')
               /\ o \notin released']_vars

\* One observer was released by a publish; the other called waitForChange
\* and is still waiting.
C26_Witness ==
    /\ released = {"v"}
    /\ changeListeners = <<"w">>

\* C27: a resumed flip is a first-card flip without cleanup.  Whenever a
\* woken flip re-enters flipCard, whatever its player did while it was
\* suspended, it runs no cleanup and it is decided by Rules 1-A to 1-D on
\* the card as it is now: its rule and the board it leaves are those of
\* the first-card rules applied to the board it finds.
C27_ResumedFlipIsFirstCardFlip ==
    resolved # <<>>
    => LET pos == Head(resolved).pos
           id  == Head(resolved).player
           out == flipCard(ResumeBoard, pos, id, TRUE)
       IN  /\ out.cleanup = "none"
           /\ out.rule \in {"1-A", "1-B", "1-C", "1-D"}
           /\ out.rule = FirstCard(ResumeBoard, pos, id).rule
           /\ out.board = FirstCard(ResumeBoard, pos, id).board

\* Player id has a pair to clean up and its flip of pos suspends.
SuspendsWithCleanup(id, pos) ==
    /\ id \in DOMAIN playerStates
    /\ Len(playerStates[id].toCleanUp) = 2
    /\ flipCard(Board, pos, id, FALSE).result = "wait"

\* C28: cleanup comes before the wait and is not repeated.  When a player
\* with a pair to clean up flips a card that another player controls and
\* suspends, the board it leaves behind is the board after its cleanup: the
\* player's two lists are empty, the player is queued on the card, and the
\* other players' views show a removed pair as "none" and a card that was
\* face up and free as "down".  A flip that re-enters after its wait runs no
\* cleanup: it changes no card but its own target and leaves a pending
\* toCleanUp pair of its player in place.
C28_CleanupBeforeWaiting ==
    /\ \A id \in Players : \A pos \in Pos :
          SuspendsWithCleanup(id, pos) =>
            LET out  == flipCard(Board, pos, id, FALSE)
                post == AfterPrologue(Board, id, FALSE)
            IN  /\ out.cleanup \in {"3-A", "3-B"}
                /\ out.board.cards = post.cards
                /\ out.board.playerStates[id] = PlayerState
                /\ id \in SeqToSet(out.board.waitQueues[pos])
                /\ \A q \in SeqToSet(playerStates[id].toCleanUp) :
                   \A other \in Players \ {id} :
                      /\ out.cleanup = "3-A"
                           => ViewLine(out.board, other, q) = <<"none">>
                      /\ (out.cleanup = "3-B" /\ FaceUpAndFree(Board, q))
                           => ViewLine(out.board, other, q) = <<"down">>
    /\ resolved # <<>> =>
          LET pos == Head(resolved).pos
              id  == Head(resolved).player
              out == flipCard(ResumeBoard, pos, id, TRUE)
          IN  /\ out.cleanup = "none"
              /\ \A q \in Pos \ {pos} : out.board.cards[q] = cards[q]
              /\ Len(playerStates[id].toCleanUp) = 2
                   => out.board.playerStates[id].toCleanUp
                        = playerStates[id].toCleanUp

\* A player with a mismatched pair, one card of it still face up and free,
\* is about to flip a card that the other player controls.
C28_Witness ==
    \E id \in Players : \E pos \in Pos :
        /\ SuspendsWithCleanup(id, pos)
        /\ Suspended < MaxWaiters
        /\ \E q \in SeqToSet(playerStates[id].toCleanUp) :
              FaceUpAndFree(Board, q)

\* C29: cleanup never removes a card that another player controls.  For
\* every flip a player can make, a card that is on the board before the
\* flip and gone after it is in no other player's controlled list, also
\* when mapCards has made the two cards of a mismatched toCleanUp pair
\* equal after another player took one of them by Rule 1-C.
C29_CleanupSparesControlledCards ==
    \A id \in Players : \A pos \in Pos :
        LET out == flipCard(Board, pos, id, FALSE)
        IN  \A q \in Pos :
              (cards[q] # NoCard /\ out.board.cards[q] = NoCard)
              => \A other \in Players \ {id} : q \notin ControlledBy(Board, other)

\* C30: flipping a card of one's own matched pair.  When a player who holds
\* a matched pair (both cards on the board, controlled by the player and
\* marked for cleanup) calls flipCard on one of the two, Rule 3-A removes
\* both cards first, the flip finds no card and fails by Rule 1-A, no error
\* is raised, and the player is left with empty controlled and toCleanUp.
C30_FlipOwnMatchedCard ==
    \A id \in Players : \A p, q \in Pos :
        HoldsMatchedPair(id, p, q) =>
          \A pos \in {p, q} :
            LET out == flipCard(Board, pos, id, FALSE)
            IN  /\ out.cleanup = "3-A"
                /\ out.rule = "1-A"
                /\ out.result = "ok"
                /\ out.board.cards[p] = NoCard
                /\ out.board.cards[q] = NoCard
                /\ out.board.playerStates[id] = PlayerState

\* A player holds a matched pair while the other player controls the third
\* card.
C30_Witness ==
    \E id \in Players : \E p, q \in Pos :
        /\ HoldsMatchedPair(id, p, q)
        /\ \E other \in Players \ {id} : ControlledBy(Board, other) # {}

\* Two flips woken together on pos are about to re-enter, and the card is
\* on the board and uncontrolled.
WokenTogether(pos) ==
    /\ Len(resolved) >= 2
    /\ resolved[1].pos = pos
    /\ resolved[2].pos = pos
    /\ cards[pos] # NoCard
    /\ ~isCardControlled(Board, pos)

\* C31: flips woken together race for the card.  When two flips suspended
\* on the same card have been woken together and the card is on the board
\* and uncontrolled, the first to re-enter gains control of it and the
\* second finds it controlled and suspends again, queued at the tail of the
\* card's queue; and no woken flip ever completes without its player
\* controlling the card unless it found the card removed (Rule 1-A).
C31_WokenFlipsRace ==
    /\ \A pos \in Pos :
          WokenTogether(pos) =>
            LET p1     == resolved[1].player
                p2     == resolved[2].player
                first  == flipCard(ResumeBoard, pos, p1, TRUE)
                b2     == [first.board EXCEPT !.resolved = Tail(@)]
                second == flipCard(b2, pos, p2, TRUE)
            IN  /\ first.result = "ok"
                /\ pos \in ControlledBy(first.board, p1)
                /\ second.result = "wait"
                /\ second.board.waitQueues[pos]
                     = Append(b2.waitQueues[pos], p2)
                /\ pos \notin ControlledBy(second.board, p2)
    /\ resolved # <<>> =>
          LET pos == Head(resolved).pos
              id  == Head(resolved).player
              out == flipCard(ResumeBoard, pos, id, TRUE)
          IN  \/ out.result = "wait"
              \/ out.rule = "1-A" /\ cards[pos] = NoCard
              \/ pos \in ControlledBy(out.board, id)

\* Call i of mapCards returns in this step.
ReturnsNow(i) ==
    /\ i \in 1 .. Len(maps)
    /\ Len(maps[i].todo) = 1
    /\ maps[i].f[Head(maps[i].todo).content] # Raises
    /\ MapApply(i)

\* C32: a transform with nothing interleaved applies f once.  When a
\* mapCards call returns and no flip or other call ran while it was in
\* flight, every card on the board holds f(x) for the content x it had when
\* the call started (not f(f(x)), also when f(x) is a content that was on
\* the board), and f has been called with each content that was on the
\* board at the start, once each and with nothing else.
C32_TransformAppliesFOnce ==
    [][\A i \in 1 .. MaxOverlap :
          ReturnsNow(i) =>
            LET m       == maps[i]
                invoked == Append(m.invoked, Head(m.todo).content)
            IN  /\ \A pos \in Pos :
                     cards'[pos] # NoCard
                     => cards'[pos].content = m.f[m.before[pos]]
                /\ SeqToSet(invoked)
                     = {m.before[pos] : pos \in Pos} \ {"none"}
                /\ Len(invoked) = Cardinality(SeqToSet(invoked))]_vars

\* A call that exchanged the two contents has returned: the cards that held
\* A hold B and the card that held B holds A.
C32_Witness ==
    /\ maps = <<>>
    /\ mapCalls = 1
    /\ \A pos \in Pos :
          /\ cards[pos] # NoCard
          /\ cards[pos].content = Swap[InitialContent(pos)]

\* Player id's flip of pos fails by Rule 2-A or 2-B.
SecondFlipFails(id, pos) ==
    /\ id \in DOMAIN playerStates
    /\ flipCard(Board, pos, id, FALSE).rule \in {"2-A", "2-B"}

\* After the failed second flip the player has nothing to clean up, the
\* first card is as it was, face up, and nobody controls it, and the
\* player's own next flip runs no cleanup and leaves it face up.
RelinquishedCardLeftFaceUp(id, pos) ==
    LET first == playerStates[id].controlled[1]
        out   == flipCard(Board, pos, id, FALSE)
    IN  /\ out.board.playerStates[id] = PlayerState
        /\ out.board.cards[first] = cards[first]
        /\ FaceUpAndFree(out.board, first)
        /\ \A pos2 \in Pos :
             LET next == flipCard(out.board, pos2, id, FALSE)
             IN  /\ next.cleanup = "none"
                 /\ next.board.cards[first] = cards[first]
                 /\ pos2 # first => FaceUpAndFree(next.board, first)

\* C33 as stated: after a second-card flip fails by Rule 2-A or 2-B the
\* player's toCleanUp is empty and the relinquished first card is not turned
\* down by that player's next flip; it stays face up and uncontrolled until
\* some player takes control of it: after the next flip of any player it is
\* still on the board and face up.
C33_RelinquishedCardStaysFaceUp ==
    \A id \in Players : \A pos \in Pos :
        SecondFlipFails(id, pos) =>
          LET first == playerStates[id].controlled[1]
              out   == flipCard(Board, pos, id, FALSE)
          IN  /\ RelinquishedCardLeftFaceUp(id, pos)
              /\ \A other \in Players : \A pos2 \in Pos :
                   LET next == flipCard(out.board, pos2, other, FALSE)
                   IN  /\ next.board.cards[first] # NoCard
                       /\ next.board.cards[first].faceUp

\* C33: after a second-card flip fails by Rule 2-A or 2-B the player's
\* toCleanUp is empty and the relinquished first card is not turned down by
\* that player's next flip; it stays face up and uncontrolled until some
\* player takes control of it or until the cleanup of another player who
\* still has it in toCleanUp turns it down or removes it: after the next
\* flip of any player who does not have it in toCleanUp it is still on the
\* board and face up.
C33_RelinquishedCardStaysFaceUpUnlessCleaned ==
    \A id \in Players : \A pos \in Pos :
        SecondFlipFails(id, pos) =>
          LET first == playerStates[id].controlled[1]
              out   == flipCard(Board, pos, id, FALSE)
          IN  /\ RelinquishedCardLeftFaceUp(id, pos)
              /\ \A other \in Players : \A pos2 \in Pos :
                   LET next == flipCard(out.board, pos2, other, FALSE)
                   IN  \/ /\ other \in DOMAIN out.board.playerStates
                          /\ first \in SeqToSet(
                               out.board.playerStates[other].toCleanUp)
                       \/ /\ next.board.cards[first] # NoCard
                          /\ next.board.cards[first].faceUp

\* A player is about to fail its second flip by Rule 2-B while its first
\* card is in the other player's toCleanUp.
C33_Witness ==
    \E id \in Players : \E pos \in Pos : \E other \in Players \ {id} :
        /\ SecondFlipFails(id, pos)
        /\ other \in DOMAIN playerStates
        /\ playerStates[id].controlled[1]
             \in SeqToSet(playerStates[other].toCleanUp)

\* Player id has a flip parked in the wait queue of some card.
IsQueued(id) == \E pos \in Pos : id \in SeqToSet(waitQueues[pos])

\* C34: a waiting player holds nothing.  In every reachable state a player
\* with a flip suspended in a wait queue controls no card and has an empty
\* toCleanUp; hence a player who controls a card that others wait for has
\* no suspended flip itself, and no players wait on each other's cards.
C34_WaitersHoldNothing ==
    /\ \A id \in DOMAIN playerStates :
          IsQueued(id) => playerStates[id] = PlayerState
    /\ \A pos \in Pos : \A id \in DOMAIN playerStates :
          (waitQueues[pos] # <<>> /\ pos \in ControlledBy(Board, id))
          => ~IsQueued(id)

\* C35: queues exist only on controlled cards.  In every reachable state a
\* card with a non-empty wait queue is on the board, face up and controlled
\* by some player (no flip stays queued on a card that was removed or that
\* nobody controls any more), and notifyWaiters on a card with an empty
\* queue leaves the board as it is.
C35_QueuedOnlyOnControlledCards ==
    \A pos \in Pos :
        /\ waitQueues[pos] # <<>>
             => /\ cards[pos] # NoCard
                /\ cards[pos].faceUp
                /\ isCardControlled(Board, pos)
        /\ waitQueues[pos] = <<>> => notifyWaiters(Board, pos) = Board

\* C36: in-bounds flips raise no error.  In every reachable state, whatever
\* card a player flips and whichever woken flip re-enters, flipCard ends by
\* returning or by waiting: no checkRep assertion fails, no assert on the
\* first card fails, and a cleanup turns down only cards that are face up
\* and uncontrolled.
C36_InBoundsFlipsRaiseNoError ==
    /\ \A id \in Players : \A pos \in Pos :
          /\ flipCard(Board, pos, id, FALSE).result # "error"
          /\ id \in DOMAIN playerStates
               => \A q \in SeqToSet(playerStates[id].toCleanUp) :
                    (FlipDownIfFree(Board, q) # Board)
                    => ~flipCardDownThrows(Board, q)
    /\ resolved # <<>> =>
          flipCard(ResumeBoard, Head(resolved).pos,
                   Head(resolved).player, TRUE).result # "error"

\* The three shapes of a player's lists named by flipCard's dispatch.
ShapeEmpty(st) ==
    /\ st.controlled = <<>>
    /\ Len(st.toCleanUp) \in {0, 2}

ShapeFirstCard(st) ==
    /\ Len(st.controlled) = 1
    /\ st.toCleanUp = <<>>

ShapeMatchedPair(st) ==
    /\ Len(st.controlled) = 2
    /\ st.toCleanUp = st.controlled
    /\ st.controlled[1] # st.controlled[2]
    /\ \A i \in 1 .. 2 : cards[st.controlled[i]] # NoCard
    /\ matches(cards[st.controlled[1]], cards[st.controlled[2]])

\* C37: every player is in one of three shapes.  In every reachable state
\* each player controls nothing (with no pending cleanup or a pending pair),
\* or controls one card with no pending cleanup, or controls two distinct
\* present cards of equal content that are also its pending cleanup, in the
\* same order.
C37_PlayerShapes ==
    \A id \in DOMAIN playerStates :
        \/ ShapeEmpty(playerStates[id])
        \/ ShapeFirstCard(playerStates[id])
        \/ ShapeMatchedPair(playerStates[id])

\* The lists of every player other than id are the same in b as now.
OthersUntouched(b, id) ==
    \A other \in DOMAIN playerStates \ {id} :
        /\ other \in DOMAIN b.playerStates
        /\ b.playerStates[other] = playerStates[other]

\* C38: a flip writes only its own player's lists.  In every reachable
\* state, whatever card a player flips (its cleanup included) and whichever
\* woken flip re-enters, the controlled and toCleanUp lists of every other
\* player are afterwards what they were before; the flipping player itself
\* stops controlling a card only by Rule 2-A, 2-B or 2-E or by its cleanup
\* (a woken flip, which skips the cleanup, only by Rule 2-A, 2-B or 2-E).
C38_FlipLeavesOtherPlayersLists ==
    /\ \A id \in Players : \A pos \in Targets :
          LET out == flipCard(Board, pos, id, FALSE)
          IN  /\ OthersUntouched(out.board, id)
              /\ ControlledBy(Board, id) \ ControlledBy(out.board, id) # {}
                   => \/ out.rule \in {"2-A", "2-B", "2-E"}
                      \/ out.cleanup # "none"
    /\ resolved # <<>> =>
          LET out == flipCard(ResumeBoard, Head(resolved).pos,
                              Head(resolved).player, TRUE)
          IN  /\ OthersUntouched(out.board, Head(resolved).player)
              /\ ControlledBy(Board, Head(resolved).player)
                     \ ControlledBy(out.board, Head(resolved).player) # {}
                   => out.rule \in {"2-A", "2-B", "2-E"}

\* A player's flip runs the cleanup of a mismatched pair while another
\* player controls one of the two cards.
C38_Witness ==
    \E id \in DOMAIN playerStates : \E other \in DOMAIN playerStates \ {id} :
        /\ Len(playerStates[id].toCleanUp) = 2
        /\ flipCard(Board, <<0, 0>>, id, FALSE).cleanup = "3-B"
        /\ \E q \in SeqToSet(playerStates[id].toCleanUp) :
              q \in ControlledBy(Board, other)

\* The cards that lie face down on the board.
FaceDownCards == {pos \in Pos : cards[pos] # NoCard /\ ~cards[pos].faceUp}

\* The board with the content of every face-down card replaced by hidden[pos].
WithHidden(hidden) ==
    [Board EXCEPT !.cards =
        [pos \in Pos |-> IF pos \in FaceDownCards
                         THEN [cards[pos] EXCEPT !.content = hidden[pos]]
                         ELSE cards[pos]]]

\* C39: the view does not depend on what face-down cards hold.  In every
\* reachable state and for every player, the text of getBoardState is the
\* same on the board as it is and on the board with any other contents under
\* its face-down cards.
C39_ViewHidesFaceDownContents ==
    \A hidden \in [FaceDownCards -> Contents] :
        \A id \in QueuePlayers :
            getBoardState(WithHidden(hidden), id) = getBoardState(Board, id)

\* The board has a face-down card whose content a transform has rewritten,
\* and a face-up card that a player controls.
C39_Witness ==
    /\ \E pos \in FaceDownCards : cards[pos].content # InitialContent(pos)
    /\ \E pos \in Pos : cards[pos] # NoCard /\ cards[pos].faceUp
                        /\ isCardControlled(Board, pos)

====
